---- MODULE Spec2Model ----
(***************************************************************************)
(* A model of the retry wrapper of src/lib/index.ts: the factory reads the *)
(* options once, and every call of the returned async function runs the    *)
(* attempt loop of lines 79-115 on its own locals.                         *)
(*                                                                         *)
(* Numbers.  Delays are JavaScript doubles; the model keeps them as        *)
(* integers counted in hundredths of a millisecond (Unit to the            *)
(* millisecond), and keeps Math.random() and the jitter factor in          *)
(* hundredths too, so that 0.8 + Math.random() * 0.4 is exact on the       *)
(* sampled draws.                                                          *)
(*                                                                         *)
(* Values.  A JavaScript value that the operation returns or throws is a   *)
(* record [isError, name, message]: an Error object with its name and      *)
(* message, or a primitive (isError = FALSE) whose String(v) is message.   *)
(***************************************************************************)
EXTENDS Integers, Sequences, FiniteSets, TLC

\* ---------------------------------------------------------------- bounds
\* The largest maxAttempts the caller writes in the options.
MaxAttemptsBound == 3
\* The number of invocation slots of one wrapper.
NumInvocations == 2

\* ------------------------------------------------------- program constants
\* options.intervals ?? 1000
DefaultIntervals == 1000
\* options.backoff ?? 2
DefaultBackoff == 2
\* options.maxAttempts ?? 3
DefaultMaxAttempts == 3
\* The number 1 in hundredths: 1 ms of delay, a factor of 1.0.
Unit == 100
\* 0.8 of "0.8 + Math.random() * 0.4", in hundredths.
JitterLow == 80
\* 0.4 of "0.8 + Math.random() * 0.4", in hundredths.
JitterSpan == 40

\* ------------------------------------------------------------------ values
\* An optional field or parameter: undefined, or a value.
None(blank) == [defined |-> FALSE, value |-> blank]
Some(v) == [defined |-> TRUE, value |-> v]

\* new Error(message) of class `name`; a primitive string.
ErrorObject(name, message) == [isError |-> TRUE, name |-> name, message |-> message]
Primitive(text) == [isError |-> FALSE, name |-> "", message |-> text]
\* The value of a local that was declared and never assigned.
Unassigned == [isError |-> FALSE, name |-> "", message |-> "undefined"]

\* What the operation may throw: Error objects of two classes, and a string.
RaisedValues ==
    { ErrorObject("TypeError", "boom"),
      ErrorObject("NetworkError", "down"),
      Primitive("oops") }

\* What the operation may return.
ReturnedValues == { Primitive("r1"), Primitive("r2") }

\* Math.random(), in hundredths: a number in [0, 1).
RandomSamples == {0, 95}

\* The options objects a caller passes (every field may be left out).
ErrorsOptions ==
    { None(<<>>), Some(<<>>), Some(<<"TypeError">>), Some(<<"Type">>),
      Some(<<"Error", "NetworkError">>) }
IntervalsOptions == { None(0), Some(0), Some(100) }
BackoffOptions == { None(0), Some(1), Some(3) }
MaxAttemptsOptions == { None(0) } \cup { Some(n) : n \in 0..MaxAttemptsBound }
MaxIntervalOptions == { None(0), Some(200) }
JitterOptions == { None(FALSE), Some(TRUE) }

RetryOptions ==
    [ errors : ErrorsOptions, intervals : IntervalsOptions,
      backoff : BackoffOptions, maxAttempts : MaxAttemptsOptions,
      maxInterval : MaxIntervalOptions, jitter : JitterOptions ]

Invocations == 1..NumInvocations

VARIABLES
    options,       \* the options object the caller passed to the factory
    errors,        \* closure: options.errors (the caller's array, or undefined)
    intervals,     \* closure: options.intervals ?? 1000, in ms
    backoff,       \* closure: options.backoff ?? 2
    maxAttempts,   \* closure: options.maxAttempts ?? 3
    maxInterval,   \* closure: options.maxInterval (a number of ms, or undefined)
    jitter,        \* closure: options.jitter ?? false
    created,       \* the closure constants as they were when the factory returned
    errorsShared,  \* options.errors is still the array that the closure holds
    pendingCalls,  \* the invocations the caller has yet to start
    fnKind,        \* per invocation: whether fn completes in the call or in a promise
    pc,            \* per invocation: where its async function stands
    attempt,       \* per invocation: the loop variable of line 83
    lastError,     \* per invocation: the local of line 80
    settled,       \* per invocation: what its promise resolved or rejected with
    exit,          \* per invocation: the statement that ended it
    calls,         \* per invocation: how many times fn was invoked
    args,          \* per invocation: the argument list the caller gives the wrapper
    passed,        \* per invocation: the argument list of each call of fn
    outcomes,      \* per invocation: what each finished call of fn produced
    trace          \* per invocation: its calls of fn and of delay(), in order

config == <<options, errors, intervals, backoff, maxAttempts, maxInterval, jitter>>
caller == <<created, errorsShared>>
vars == <<options, errors, intervals, backoff, maxAttempts, maxInterval, jitter,
          created, errorsShared,
          pendingCalls, fnKind, pc, attempt, lastError, settled, exit, calls, args, passed,
          outcomes, trace>>

\* The entries of trace: fn invoked with the loop variable at `index`; delay(ms)
\* called, `ms` in ms/Unit, after Math.random() returned `random` (0 when it was
\* not called).
AttemptEvent(index) == [kind |-> "attempt", n |-> index, random |-> 0]
WaitEvent(ms, random) == [kind |-> "wait", n |-> ms, random |-> random]

\* ----------------------------------------------------------- pure helpers
\* a ?? b
Nullish(opt, default) == IF opt.defined THEN opt.value ELSE default

\* Math.min
Min(a, b) == IF a <= b THEN a ELSE b

\* Math.pow(b, n) for an integer n >= 0
RECURSIVE Pow(_, _)
Pow(b, n) == IF n <= 0 THEN 1 ELSE b * Pow(b, n - 1)

\* array.includes(x)
Includes(list, x) == \E k \in 1..Len(list) : list[k] = x

\* A catch block that keeps the raised value as it is.
NormalizeKeepsValue(v) == v

\* error instanceof Error ? error : new Error(String(error))
Normalize(v) == IF v.isError THEN v ELSE ErrorObject("Error", v.message)

\* A classifier that also accepts a listed name found inside the error's name.
ProperSubstrings ==
    { <<"TypeError", "Type">>, <<"TypeError", "Error">>, <<"NetworkError", "Error">> }
shouldRetryErrorPartialMatch(error, allowedErrors) ==
    IF ~allowedErrors.defined \/ Len(allowedErrors.value) = 0
    THEN TRUE
    ELSE \E k \in 1..Len(allowedErrors.value) :
            \/ allowedErrors.value[k] = error.name
            \/ <<error.name, allowedErrors.value[k]>> \in ProperSubstrings

\* A classifier that never looks at the list.
shouldRetryErrorIgnoringList(error, allowedErrors) == TRUE

\* shouldRetryError(error, allowedErrors)
shouldRetryError(error, allowedErrors) ==
    IF ~allowedErrors.defined \/ Len(allowedErrors.value) = 0
    THEN TRUE
    ELSE Includes(allowedErrors.value, error.name)

\* 0.8 + Math.random() * 0.4, in hundredths
jitterFactor(random) == JitterLow + (random * JitterSpan) \div Unit

\* A delay whose exponent counts attempts from 1.
calculateDelayOneIndexed(baseInterval, backoffRate, attemptIndex, cap, withJitter, random) ==
    LET exponential == baseInterval * Pow(backoffRate, attemptIndex + 1) * Unit
        jittered == IF withJitter
                    THEN (exponential * jitterFactor(random)) \div Unit
                    ELSE exponential
    IN  IF cap.defined THEN Min(jittered, cap.value * Unit) ELSE jittered

\* A delay that is capped first and jittered afterwards.
calculateDelayCapBeforeJitter(baseInterval, backoffRate, attemptIndex, cap, withJitter, random) ==
    LET exponential == baseInterval * Pow(backoffRate, attemptIndex) * Unit
        capped == IF cap.defined THEN Min(exponential, cap.value * Unit) ELSE exponential
    IN  IF withJitter THEN (capped * jitterFactor(random)) \div Unit ELSE capped

\* calculateDelay(baseInterval, backoff, attempt, maxInterval, jitter), with the
\* value Math.random() returns when it is called; the result is in ms/Unit.
calculateDelay(baseInterval, backoffRate, attemptIndex, cap, withJitter, random) ==
    LET exponential == baseInterval * Pow(backoffRate, attemptIndex) * Unit
        jittered == IF withJitter
                    THEN (exponential * jitterFactor(random)) \div Unit
                    ELSE exponential
    IN  IF cap.defined THEN Min(jittered, cap.value * Unit) ELSE jittered

\* The test of the last attempt written against maxAttempts itself.
LastAttemptOffByOne(a) == a = maxAttempts

\* attempt === maxAttempts - 1
LastAttempt(a) == a = maxAttempts - 1

\* ------------------------------------------------------------------- Init
\* The factory has run on the caller's options; no invocation has started.
\* A factory whose default budget counts the retries, not the attempts.
FactoryCountsRetries(o) ==
    /\ options = o
    /\ errors = o.errors
    /\ intervals = Nullish(o.intervals, DefaultIntervals)
    /\ backoff = Nullish(o.backoff, DefaultBackoff)
    /\ maxAttempts = Nullish(o.maxAttempts, DefaultMaxAttempts + 1)
    /\ maxInterval = o.maxInterval
    /\ jitter = Nullish(o.jitter, FALSE)

\* A factory that takes the default interval with ||, so also for 0.
FactoryFalsyIntervals(o) ==
    /\ options = o
    /\ errors = o.errors
    /\ intervals = IF o.intervals.defined /\ o.intervals.value # 0
                   THEN o.intervals.value
                   ELSE DefaultIntervals
    /\ backoff = Nullish(o.backoff, DefaultBackoff)
    /\ maxAttempts = Nullish(o.maxAttempts, DefaultMaxAttempts)
    /\ maxInterval = o.maxInterval
    /\ jitter = Nullish(o.jitter, FALSE)

Factory(o) ==
    /\ options = o
    /\ errors = o.errors
    /\ intervals = Nullish(o.intervals, DefaultIntervals)
    /\ backoff = Nullish(o.backoff, DefaultBackoff)
    /\ maxAttempts = Nullish(o.maxAttempts, DefaultMaxAttempts)
    /\ maxInterval = o.maxInterval
    /\ jitter = Nullish(o.jitter, FALSE)

\* The factory has just returned: the closure holds what it read on lines 72-77,
\* and the array of options.errors, if there is one, is the one it holds.
Created ==
    /\ created = [ errors |-> errors, intervals |-> intervals, backoff |-> backoff,
                   maxAttempts |-> maxAttempts, maxInterval |-> maxInterval,
                   jitter |-> jitter ]
    /\ errorsShared = errors.defined

NotStarted ==
    /\ pc = [i \in Invocations |-> "idle"]
    /\ attempt = [i \in Invocations |-> 0]
    /\ lastError = [i \in Invocations |-> Unassigned]
    /\ settled = [i \in Invocations |-> Unassigned]
    /\ exit = [i \in Invocations |-> "none"]
    /\ calls = [i \in Invocations |-> 0]
    /\ passed = [i \in Invocations |-> <<>>]
    /\ outcomes = [i \in Invocations |-> <<>>]
    /\ trace = [i \in Invocations |-> <<>>]

\* The operation is a plain function (it returns or throws inside the call) or
\* an async one (it returns a promise), for each invocation that is started.
KindChoices(started) ==
    { f \in [Invocations -> {"sync", "async"}] : \A i \in Invocations \ started : f[i] = "async" }

\* The argument lists a caller may give the wrapped function.
ArgLists == { <<>>, <<"a">>, <<"a", "b">>, <<"b", "a">> }

\* The invocations that are started are given any of them.
ArgsChoices(started) ==
    { f \in [Invocations -> ArgLists] : \A i \in Invocations \ started : f[i] = <<>> }

Init ==
    /\ \E o \in RetryOptions : Factory(o)
    /\ Created
    /\ pendingCalls = {1}
    /\ args = [i \in Invocations |-> IF i = 1 THEN <<"a", "b">> ELSE <<>>]
    /\ fnKind \in KindChoices({1})
    /\ NotStarted

\* ---------------------------------------------------------------- actions
\* A loop test that counts the calls of every invocation of the wrapper.
RECURSIVE CallsOfFirst(_)
CallsOfFirst(n) == IF n = 0 THEN 0 ELSE calls[n] + CallsOfFirst(n - 1)
LoopHeadSharedBudget(i, a, err) ==
    IF CallsOfFirst(NumInvocations) < maxAttempts
    THEN /\ pc' = [pc EXCEPT ![i] = "awaitFn"]
         /\ calls' = [calls EXCEPT ![i] = @ + 1]
         /\ trace' = [trace EXCEPT ![i] = Append(@, AttemptEvent(a))]
         /\ UNCHANGED <<settled, exit>>
    ELSE /\ pc' = [pc EXCEPT ![i] = "rejected"]
         /\ settled' = [settled EXCEPT ![i] = err]
         /\ exit' = [exit EXCEPT ![i] = "afterLoop"]
         /\ UNCHANGED <<calls, trace>>

\* The head of the loop with loop variable a: the test of line 83, then the call
\* of fn at line 85, or, the test failing, the throw of line 114 (err is the
\* value lastError holds then).
LoopHead(i, a, err) ==
    IF a < maxAttempts
    THEN /\ pc' = [pc EXCEPT ![i] = "awaitFn"]
         /\ calls' = [calls EXCEPT ![i] = @ + 1]
         /\ trace' = [trace EXCEPT ![i] = Append(@, AttemptEvent(a))]
         /\ UNCHANGED <<settled, exit>>
    ELSE /\ pc' = [pc EXCEPT ![i] = "rejected"]
         /\ settled' = [settled EXCEPT ![i] = err]
         /\ exit' = [exit EXCEPT ![i] = "afterLoop"]
         /\ UNCHANGED <<calls, trace>>

\* A call that hands fn the caller's arguments in reverse order.
SpreadReversed(list) == [k \in 1..Len(list) |-> list[Len(list) + 1 - k]]

\* fn(...args) of line 85: the rest parameter of line 79, spread again.
Spread(list) == list

\* The call of fn that a step makes, if it makes one, receives the arguments.
PassesArgs(i) ==
    passed' = IF calls'[i] > calls[i]
              THEN [passed EXCEPT ![i] = Append(@, Spread(args[i]))]
              ELSE passed

\* The caller calls the wrapped function: lines 79-85, up to the first await.
Call(i) ==
    /\ i \in pendingCalls
    /\ pc[i] = "idle"
    /\ pendingCalls' = pendingCalls \ {i}
    /\ attempt' = [attempt EXCEPT ![i] = 0]
    /\ lastError' = [lastError EXCEPT ![i] = Unassigned]
    /\ LoopHead(i, 0, Unassigned)
    /\ UNCHANGED <<config, caller, args, fnKind, outcomes>>
    /\ PassesArgs(i)

\* The awaited call of fn produces the value r: lines 85-86.
FnReturns(i, r) ==
    /\ pc[i] = "awaitFn"
    /\ outcomes' = [outcomes EXCEPT ![i] = Append(@, [threw |-> FALSE, value |-> r])]
    /\ pc' = [pc EXCEPT ![i] = "resolved"]
    /\ settled' = [settled EXCEPT ![i] = r]
    /\ exit' = [exit EXCEPT ![i] = "return"]
    /\ UNCHANGED <<config, caller, args, pendingCalls, fnKind, attempt, lastError, calls, trace, passed>>

\* A catch block that goes on to the next attempt without calling delay().
FnThrowsNoDelay(i, v, random) ==
    /\ pc[i] = "awaitFn"
    /\ outcomes' = [outcomes EXCEPT ![i] = Append(@, [threw |-> TRUE, value |-> v])]
    /\ lastError' = [lastError EXCEPT ![i] = Normalize(v)]
    /\ IF ~shouldRetryError(Normalize(v), errors) \/ LastAttempt(attempt[i])
       THEN /\ pc' = [pc EXCEPT ![i] = "rejected"]
            /\ settled' = [settled EXCEPT ![i] = Normalize(v)]
            /\ exit' = [exit EXCEPT ![i] = "lastAttempt"]
            /\ UNCHANGED <<trace, attempt, calls>>
       ELSE /\ attempt' = [attempt EXCEPT ![i] = @ + 1]
            /\ LoopHead(i, attempt[i] + 1, Normalize(v))
    /\ UNCHANGED <<config, caller, args, pendingCalls, fnKind>>
    /\ PassesArgs(i)

\* The catch block, lines 87-109, up to the await of the delay: fn, called with
\* the loop variable at a, threw v; random is what Math.random() returns and
\* before is the trace up to and including that call.
CatchBlock(i, a, v, random, before) ==
    /\ outcomes' = [outcomes EXCEPT ![i] = Append(@, [threw |-> TRUE, value |-> v])]
    /\ lastError' = [lastError EXCEPT ![i] = Normalize(v)]
    /\ IF ~shouldRetryError(Normalize(v), errors)
       THEN /\ pc' = [pc EXCEPT ![i] = "rejected"]
            /\ settled' = [settled EXCEPT ![i] = Normalize(v)]
            /\ exit' = [exit EXCEPT ![i] = "notRetryable"]
            /\ trace' = [trace EXCEPT ![i] = before]
       ELSE IF LastAttempt(a)
       THEN /\ pc' = [pc EXCEPT ![i] = "rejected"]
            /\ settled' = [settled EXCEPT ![i] = Normalize(v)]
            /\ exit' = [exit EXCEPT ![i] = "lastAttempt"]
            /\ trace' = [trace EXCEPT ![i] = before]
       ELSE /\ pc' = [pc EXCEPT ![i] = "awaitDelay"]
            /\ trace' = [trace EXCEPT ![i] = Append(before, WaitEvent(
                  calculateDelay(intervals, backoff, a, maxInterval, jitter, random),
                  random))]
            /\ UNCHANGED <<settled, exit>>

\* The promise that fn returned rejects with v: the await of line 85 throws it
\* into the catch block.
FnThrows(i, v, random) ==
    /\ pc[i] = "awaitFn"
    /\ fnKind[i] = "async"
    /\ CatchBlock(i, attempt[i], v, random, trace[i])
    /\ UNCHANGED <<config, caller, args, pendingCalls, fnKind, attempt, calls, passed>>

\* A throw inside the call of fn that leaves the wrapped function at once.
SyncThrowEscapes(i, a, v, random) ==
    /\ a < maxAttempts
    /\ calls' = [calls EXCEPT ![i] = @ + 1]
    /\ outcomes' = [outcomes EXCEPT ![i] = Append(@, [threw |-> TRUE, value |-> v])]
    /\ trace' = [trace EXCEPT ![i] = Append(@, AttemptEvent(a))]
    /\ pc' = [pc EXCEPT ![i] = "rejected"]
    /\ settled' = [settled EXCEPT ![i] = v]
    /\ exit' = [exit EXCEPT ![i] = "escaped"]
    /\ UNCHANGED lastError

\* The loop test of line 83 holds with the loop variable at a, and fn throws v
\* inside the call of line 85: the try of line 84 hands it to the catch block.
SyncThrow(i, a, v, random) ==
    /\ a < maxAttempts
    /\ calls' = [calls EXCEPT ![i] = @ + 1]
    /\ CatchBlock(i, a, v, random, Append(trace[i], AttemptEvent(a)))

\* The caller calls the wrapped function and the first call of fn throws v
\* inside the call: lines 79-109, up to the await of the delay.
CallFnThrows(i, v, random) ==
    /\ i \in pendingCalls
    /\ pc[i] = "idle"
    /\ fnKind[i] = "sync"
    /\ pendingCalls' = pendingCalls \ {i}
    /\ attempt' = [attempt EXCEPT ![i] = 0]
    /\ SyncThrow(i, 0, v, random)
    /\ UNCHANGED <<config, caller, args, fnKind>>
    /\ PassesArgs(i)

\* A timer that fires without resuming the loop.
DelayElapsesNeverResumes(i) ==
    /\ pc[i] = "awaitDelay"
    /\ UNCHANGED vars

\* A timer after which the loop variable moves on by two.
DelayElapsesDoubleIncrement(i) ==
    /\ pc[i] = "awaitDelay"
    /\ attempt' = [attempt EXCEPT ![i] = @ + 2]
    /\ LoopHead(i, attempt[i] + 2, lastError[i])
    /\ UNCHANGED <<config, caller, args, pendingCalls, fnKind, lastError, outcomes>>
    /\ PassesArgs(i)

\* The timer of delay() fires: attempt++ and the head of the loop again.
DelayElapses(i) ==
    /\ pc[i] = "awaitDelay"
    /\ attempt' = [attempt EXCEPT ![i] = @ + 1]
    /\ LoopHead(i, attempt[i] + 1, lastError[i])
    /\ UNCHANGED <<config, caller, args, pendingCalls, fnKind, lastError, outcomes>>
    /\ PassesArgs(i)

\* The timer of delay() fires: attempt++, and the next call of fn throws v inside
\* the call.
DelayElapsesFnThrows(i, v, random) ==
    /\ pc[i] = "awaitDelay"
    /\ fnKind[i] = "sync"
    /\ attempt' = [attempt EXCEPT ![i] = @ + 1]
    /\ SyncThrow(i, attempt[i] + 1, v, random)
    /\ UNCHANGED <<config, caller, args, pendingCalls, fnKind>>
    /\ PassesArgs(i)

\* What Math.random() may return where it is called (nothing is drawn otherwise).
Draws == IF jitter THEN RandomSamples ELSE {0}

\* The call of fn that invocation i awaits completes, either way.
FnSettles(i) ==
    \/ \E r \in ReturnedValues : FnReturns(i, r)
    \/ \E v \in RaisedValues : \E random \in Draws : FnThrows(i, v, random)

\* A call of fn made by invocation i throws inside the call.
FnThrowsInCall(i) ==
    \E v \in RaisedValues : \E random \in Draws :
        CallFnThrows(i, v, random) \/ DelayElapsesFnThrows(i, v, random)

\* One step of invocation i.
Step(i) == Call(i) \/ FnSettles(i) \/ DelayElapses(i) \/ FnThrowsInCall(i)

Next == \E i \in Invocations : Step(i)

Spec == Init /\ [][Next]_vars

\* Every call of the operation completes and every timer fires.
FairSpec ==
    /\ Spec
    /\ \A i \in Invocations : WF_vars(FnSettles(i)) /\ WF_vars(DelayElapses(i))

\* The wrapper called several times, the invocations running interleaved: every
\* invocation is started, on a wrapper made from one of a few options objects.
ConcurrentOptions ==
    [ errors : { Some(<<"TypeError">>) },
      intervals : { Some(100) },
      backoff : { None(0) },
      maxAttempts : { Some(2) },
      maxInterval : { None(0) },
      jitter : { None(FALSE), Some(TRUE) } ]

ConcurrentInit ==
    /\ \E o \in ConcurrentOptions : Factory(o)
    /\ Created
    /\ pendingCalls = Invocations
    /\ args = [i \in Invocations |-> <<"a", "b">>]
    /\ fnKind \in KindChoices(Invocations)
    /\ NotStarted

ConcurrentSpec == ConcurrentInit /\ [][Next]_vars

\* One invocation, started with any of the argument lists, on a wrapper that
\* retries every error at once, up to any number of attempts.
ArgsOptions ==
    [ errors : { None(<<>>) },
      intervals : { Some(0) },
      backoff : { None(0) },
      maxAttempts : { Some(n) : n \in 1..MaxAttemptsBound },
      maxInterval : { None(0) },
      jitter : { None(FALSE) } ]

ArgsInit ==
    /\ \E o \in ArgsOptions : Factory(o)
    /\ Created
    /\ pendingCalls = {1}
    /\ args \in ArgsChoices({1})
    /\ fnKind \in KindChoices({1})
    /\ NotStarted

ArgsSpec == ArgsInit /\ [][Next]_vars

\* The caller keeps the options object and its errors array after the wrapper is
\* made, and changes them while the wrapper is in use.
MutationOptions ==
    [ errors : { None(<<>>), Some(<<"TypeError">>) },
      intervals : { Some(100) },
      backoff : { None(0) },
      maxAttempts : { Some(2) },
      maxInterval : { None(0) },
      jitter : { None(FALSE) } ]

\* What the caller assigns to a field of the options object.
Assignments ==
    { <<"errors", Some(<<"NetworkError">>)>>, <<"intervals", Some(0)>>,
      <<"backoff", Some(3)>>, <<"maxAttempts", Some(1)>>,
      <<"maxInterval", Some(0)>>, <<"jitter", Some(TRUE)>> }

\* What the caller's errors array holds after a change made in place.
ListContents == { <<>>, <<"TypeError">>, <<"NetworkError">> }

\* options.f = v: the object changes; the closure read its fields on lines 72-77
\* and does not read them again.
AssignOption(f, v) ==
    /\ options[f] # v
    /\ options' = [options EXCEPT ![f] = v]
    /\ errorsShared' = IF f = "errors" THEN FALSE ELSE errorsShared
    /\ UNCHANGED <<errors, intervals, backoff, maxAttempts, maxInterval, jitter, created,
                   args, pendingCalls, fnKind, pc, attempt, lastError, settled, exit,
                   calls, passed, outcomes, trace>>

\* A change in place (push, splice, length = 0) of the array the caller passed
\* as options.errors: line 72 kept a reference to that array, not a copy.
MutateErrorsList(l) ==
    /\ errors.defined
    /\ errors.value # l
    /\ errors' = Some(l)
    /\ options' = IF errorsShared THEN [options EXCEPT !.errors = Some(l)] ELSE options
    /\ UNCHANGED <<intervals, backoff, maxAttempts, maxInterval, jitter, created,
                   errorsShared, args, pendingCalls, fnKind, pc, attempt, lastError,
                   settled, exit, calls, passed, outcomes, trace>>

CallerMutates ==
    \/ \E a \in Assignments : AssignOption(a[1], a[2])
    \/ \E l \in ListContents : MutateErrorsList(l)

MutationInit ==
    /\ \E o \in MutationOptions : Factory(o)
    /\ Created
    /\ pendingCalls = {1}
    /\ args = [i \in Invocations |-> IF i = 1 THEN <<"a", "b">> ELSE <<>>]
    /\ fnKind \in KindChoices({1})
    /\ NotStarted

MutationNext == Next \/ CallerMutates

MutationSpec == MutationInit /\ [][MutationNext]_vars

\* ------------------------------------------------------- the claims' terms
\* An invocation has ended: its promise is resolved or rejected.
Terminal(i) == pc[i] \in {"resolved", "rejected"}

\* The waits of invocation i so far, in order.
Waits(i) == SelectSeq(trace[i], LAMBDA e : e.kind = "wait")

\* The kind of a raised value: the name of the Error it is, or becomes.
ErrorKind(v) == IF v.isError THEN v.name ELSE "Error"

\* The error a raised value is surfaced as.
Surfaced(v) == IF v.isError THEN v ELSE [isError |-> TRUE, name |-> "Error", message |-> v.message]

\* The configured list names some kinds, and not this value's.
Excluded(v) ==
    /\ errors.defined
    /\ Len(errors.value) > 0
    /\ \A m \in 1..Len(errors.value) : errors.value[m] # ErrorKind(v)

\* Attempt k of invocation i has finished by throwing.
Failed(i, k) == k \in 1..Len(outcomes[i]) /\ outcomes[i][k].threw

\* ------------------------------------------------------------------ claims
\* C1: in every invocation the operation is invoked at most maxAttempts times,
\* and an invocation that has ended has invoked it at least once, whatever the
\* configuration and whatever the operation does.
C1_InvokedBetweenOnceAndMaxAttempts ==
    \A i \in Invocations :
        /\ calls[i] <= maxAttempts
        /\ Terminal(i) => calls[i] >= 1

\* C2: when attempt k returns after attempts 1..k-1 failed, the invocation is
\* resolved with the value attempt k returned, after exactly k invocations of
\* the operation and k-1 waits, with k <= maxAttempts; every earlier attempt
\* failed with a retryable error, and the invocation takes no further step.
C2_SuccessOnAttemptK ==
    \A i \in Invocations : \A k \in 1..Len(outcomes[i]) :
        ~outcomes[i][k].threw =>
            /\ pc[i] = "resolved"
            /\ settled[i] = outcomes[i][k].value
            /\ k = Len(outcomes[i]) /\ calls[i] = k /\ k <= maxAttempts
            /\ Len(Waits(i)) = k - 1
            /\ \A j \in 1..(k - 1) : Failed(i, j) /\ ~Excluded(outcomes[i][j].value)
            /\ ~ENABLED Step(i)

C2_Witness ==
    /\ pc[1] = "resolved" /\ calls[1] = 3 /\ Len(Waits(1)) = 2
    /\ settled[1] = Primitive("r2")
    /\ errors.defined /\ Len(errors.value) > 0

\* C3: an attempt that fails with an error whose kind is not in a non-empty
\* errors list is the last one: the invocation is rejected with that error
\* (normalized), no wait follows the attempt, no further step is taken, whatever
\* budget is left; when it is the first attempt the operation was invoked once.
C3_NonRetryableFailsAtOnce ==
    \A i \in Invocations : \A k \in 1..Len(outcomes[i]) :
        Failed(i, k) /\ Excluded(outcomes[i][k].value) =>
            /\ pc[i] = "rejected"
            /\ settled[i] = Surfaced(outcomes[i][k].value)
            /\ k = Len(outcomes[i]) /\ calls[i] = k
            /\ Len(Waits(i)) = k - 1
            /\ trace[i][Len(trace[i])].kind = "attempt"
            /\ ~ENABLED Step(i)

C3_Witness ==
    /\ maxAttempts = 3
    /\ Failed(1, 1) /\ Excluded(outcomes[1][1].value)
    /\ pc[1] = "rejected" /\ calls[1] = 1 /\ trace[1] = <<AttemptEvent(0)>>

\* C4: an invocation whose attempts all failed with retryable errors is rejected
\* after exactly maxAttempts invocations of the operation and maxAttempts - 1
\* waits.
C4_ExhaustionAfterMaxAttempts ==
    \A i \in Invocations :
        ( /\ pc[i] = "rejected"
          /\ Len(outcomes[i]) >= 1
          /\ \A k \in 1..Len(outcomes[i]) : Failed(i, k) /\ ~Excluded(outcomes[i][k].value) )
        => /\ calls[i] = maxAttempts
           /\ Len(outcomes[i]) = maxAttempts
           /\ Len(Waits(i)) = maxAttempts - 1

C4_Witness ==
    /\ pc[1] = "rejected" /\ maxAttempts = 3 /\ calls[1] = 3 /\ Len(Waits(1)) = 2
    /\ errors.defined /\ Len(errors.value) > 0
    /\ \A k \in 1..3 : Failed(1, k) /\ ~Excluded(outcomes[1][k].value)

\* C5: an invocation that is rejected surfaces the normalized error of its most
\* recent attempt: the operation was invoked, its last call threw, and the
\* rejection value is that thrown value, normalized.
C5_SurfacesLastNormalizedError ==
    \A i \in Invocations :
        pc[i] = "rejected" =>
            /\ Len(outcomes[i]) >= 1
            /\ outcomes[i][Len(outcomes[i])].threw
            /\ settled[i] = Surfaced(outcomes[i][Len(outcomes[i])].value)

\* The exponential value base * backoff^n in ms, capped when a cap is configured.
CappedExponential(n) ==
    LET exponential == intervals * backoff ^ n
    IN  IF maxInterval.defined /\ maxInterval.value < exponential
        THEN maxInterval.value
        ELSE exponential

\* The factors of [0.8, 1.2), in hundredths.
JitterFactors == { f \in 0..(2 * Unit) : 8 * Unit <= 10 * f /\ 10 * f < 12 * Unit }

\* C6: a failed attempt stops the invocation as non-retryable exactly when the
\* errors list is present, non-empty and holds no name equal to the error's
\* kind; the classifier agrees with that on every list and raised value; and
\* with an absent or empty list a failed attempt below the budget is followed by
\* a wait, so that a rejected invocation has made maxAttempts attempts.
C6_ClassifierExactMembership ==
    /\ \A l \in ErrorsOptions : \A v \in RaisedValues :
          shouldRetryError(Normalize(v), l) <=>
              \/ ~l.defined
              \/ l.value = <<>>
              \/ \E m \in 1..Len(l.value) : l.value[m] = ErrorKind(v)
    /\ \A i \in Invocations : \A k \in 1..Len(outcomes[i]) :
          Failed(i, k) =>
              /\ (exit[i] = "notRetryable" /\ k = Len(outcomes[i])) <=> Excluded(outcomes[i][k].value)
              /\ (~errors.defined \/ Len(errors.value) = 0) =>
                    /\ k < maxAttempts => Len(Waits(i)) >= k
                    /\ pc[i] = "rejected" => calls[i] = maxAttempts

C6_Witness ==
    /\ errors = Some(<<"Error", "NetworkError">>)
    /\ Len(outcomes[1]) = 2
    /\ outcomes[1][1] = [threw |-> TRUE, value |-> ErrorObject("NetworkError", "down")]
    /\ outcomes[1][2] = [threw |-> TRUE, value |-> ErrorObject("TypeError", "boom")]
    /\ Len(Waits(1)) = 1 /\ exit[1] = "notRetryable" /\ maxAttempts = 3

\* C7: without jitter, the wait that precedes attempt index idx (idx >= 1) is
\* min(intervals * backoff^(idx-1), maxInterval), uncapped when no maxInterval
\* is configured; it is the idx-th wait of the invocation and never exceeds a
\* configured maxInterval.
C7_DelayWithoutJitter ==
    \A i \in Invocations : \A p \in 1..Len(trace[i]) :
        (~jitter /\ trace[i][p].kind = "wait") =>
            /\ p > 1 /\ trace[i][p - 1].kind = "attempt"
            /\ LET idx == trace[i][p - 1].n + 1
               IN  /\ idx >= 1 /\ p = 2 * idx
                   /\ trace[i][p].n = CappedExponential(idx - 1) * Unit
                   /\ p < Len(trace[i]) => trace[i][p + 1] = AttemptEvent(idx)
            /\ maxInterval.defined => trace[i][p].n <= maxInterval.value * Unit

C7_Witness ==
    /\ ~jitter /\ intervals = 100 /\ backoff = 3 /\ maxInterval = Some(200)
    /\ Len(Waits(1)) = 2
    /\ Waits(1)[1].n = 100 * Unit /\ Waits(1)[2].n = 200 * Unit
    /\ Terminal(1)

\* C8: with jitter, each wait is the exponential value of its attempt index
\* times a factor of [0.8, 1.2), capped afterwards: it never exceeds a
\* configured maxInterval.
C8_DelayWithJitter ==
    \A i \in Invocations : \A p \in 1..Len(trace[i]) :
        (jitter /\ trace[i][p].kind = "wait") =>
            /\ p > 1 /\ trace[i][p - 1].kind = "attempt"
            /\ trace[i][p].random >= 0 /\ trace[i][p].random < Unit
            /\ \E f \in JitterFactors :
                  LET jittered == intervals * backoff ^ (trace[i][p - 1].n) * f
                  IN  trace[i][p].n =
                         IF maxInterval.defined /\ maxInterval.value * Unit < jittered
                         THEN maxInterval.value * Unit
                         ELSE jittered
            /\ maxInterval.defined => trace[i][p].n <= maxInterval.value * Unit

C8_Witness ==
    /\ jitter /\ intervals = 100 /\ backoff = 3 /\ maxInterval = Some(200)
    /\ Len(Waits(1)) = 2
    /\ Waits(1)[1].n = 118 * Unit /\ Waits(1)[1].random = 95
    /\ Waits(1)[2].n = 200 * Unit /\ Waits(1)[2].random = 0

\* C9: the calls of the operation and the waits of an invocation alternate,
\* beginning with a call; the trace ends with a wait only while that wait is
\* pending, and then another attempt is due; every wait follows a failed
\* retryable attempt that was not the last permitted one.
C9_AttemptsAndWaitsAlternate ==
    \A i \in Invocations :
        /\ \A p \in 1..Len(trace[i]) :
              trace[i][p].kind = (IF p % 2 = 1 THEN "attempt" ELSE "wait")
        /\ calls[i] = Len(SelectSeq(trace[i], LAMBDA e : e.kind = "attempt"))
        /\ (Len(trace[i]) > 0 /\ trace[i][Len(trace[i])].kind = "wait") <=> pc[i] = "awaitDelay"
        /\ pc[i] = "awaitDelay" => ENABLED DelayElapses(i) /\ attempt[i] + 1 < maxAttempts
        /\ \A p \in 1..Len(trace[i]) :
              trace[i][p].kind = "wait" =>
                  /\ Failed(i, p \div 2)
                  /\ ~Excluded(outcomes[i][p \div 2].value)
                  /\ p \div 2 < maxAttempts

C9_Witness ==
    /\ pc[1] = "rejected" /\ exit[1] = "notRetryable"
    /\ Len(trace[1]) = 5 /\ trace[1][5].kind = "attempt" /\ trace[1][4].kind = "wait"

\* C10: an invocation that awaits the operation or a delay eventually ends,
\* resolved or rejected, when every call of the operation completes and every
\* timer fires.
C10_ReachesTerminalState ==
    \A i \in Invocations : (pc[i] \in {"awaitFn", "awaitDelay"}) ~> Terminal(i)

C10_Witness ==
    /\ Terminal(1) /\ jitter /\ maxAttempts = 3
    /\ Len(trace[1]) = 2 * maxAttempts - 1

\* The draws of Math.random() behind the waits of invocation i, in order.
Randoms(i) == [k \in 1..Len(Waits(i)) |-> Waits(i)[k].random]

\* C11: whatever the other invocations of the wrapper do, an invocation begins
\* with attempt index 0 and numbers its attempts 0, 1, 2, ...; what it has done
\* follows from the outcomes of its own attempts: it has called the operation
\* once per outcome (and once more while it awaits the next), waited once per
\* retried failure, and ended exactly on a return, on a non-retryable error or
\* on the failure of attempt maxAttempts; and two invocations with the same
\* outcomes, the same draws and the same position are in the same state.
C11_InvocationsIndependent ==
    /\ \A i \in Invocations :
          LET k == Len(outcomes[i])
              retried == k - (IF Terminal(i) THEN 1 ELSE 0)
          IN  /\ \A p \in 1..Len(trace[i]) :
                    p % 2 = 1 => trace[i][p] = AttemptEvent((p - 1) \div 2)
              /\ pc[i] = "idle" => calls[i] = 0 /\ k = 0
              /\ calls[i] = k + (IF pc[i] = "awaitFn" THEN 1 ELSE 0)
              /\ Len(Waits(i)) = retried
              /\ Terminal(i) <=>
                    /\ k >= 1
                    /\ \/ ~outcomes[i][k].threw
                       \/ Excluded(outcomes[i][k].value)
                       \/ k = maxAttempts
              /\ \A j \in 1..(k - 1) :
                    Failed(i, j) /\ ~Excluded(outcomes[i][j].value)
    /\ \A i, j \in Invocations :
          (outcomes[i] = outcomes[j] /\ Randoms(i) = Randoms(j) /\ pc[i] = pc[j]) =>
              /\ trace[i] = trace[j] /\ calls[i] = calls[j] /\ attempt[i] = attempt[j]
              /\ settled[i] = settled[j] /\ exit[i] = exit[j] /\ lastError[i] = lastError[j]

C11_Witness ==
    /\ maxAttempts = 2
    /\ pc[1] = "awaitFn" /\ attempt[1] = 1 /\ calls[1] = 2 /\ Len(outcomes[1]) = 1
    /\ pc[2] = "awaitFn" /\ attempt[2] = 0 /\ calls[2] = 1 /\ outcomes[2] = <<>>

\* C12: a raised value that is not an Error becomes an Error named "Error" whose
\* message is the value's text: lastError holds that Error once the attempt has
\* failed, the attempt stops the invocation as non-retryable exactly when the
\* errors list is present, non-empty and without the name "Error", and a
\* rejection after it surfaces that Error, not the raw value.
C12_NonErrorValueCoerced ==
    \A i \in Invocations :
        LET k == Len(outcomes[i])
        IN  (Failed(i, k) /\ ~outcomes[i][k].value.isError) =>
                LET coerced == [isError |-> TRUE, name |-> "Error",
                                message |-> outcomes[i][k].value.message]
                IN  /\ lastError[i] = coerced
                    /\ exit[i] = "notRetryable" <=>
                          /\ errors.defined /\ Len(errors.value) > 0
                          /\ \A m \in 1..Len(errors.value) : errors.value[m] # "Error"
                    /\ pc[i] = "rejected" =>
                          settled[i] = coerced /\ settled[i] # outcomes[i][k].value

C12_Witness ==
    /\ errors = Some(<<"Error", "NetworkError">>) /\ maxAttempts = 2
    /\ outcomes[1] = << [threw |-> TRUE, value |-> Primitive("oops")],
                        [threw |-> TRUE, value |-> Primitive("oops")] >>
    /\ pc[1] = "rejected" /\ Len(Waits(1)) = 1
    /\ settled[1] = ErrorObject("Error", "oops")

\* C13: an invocation whose operation completes inside the call and one whose
\* operation completes in a promise, having produced the same outcomes with the
\* same draws and both past their last outcome, have made the same calls and
\* waits and stand at the same place with the same result or error.
C13_SyncAndAsyncAgree ==
    \A i, j \in Invocations :
        ( /\ fnKind[i] = "sync" /\ fnKind[j] = "async"
          /\ outcomes[i] = outcomes[j] /\ Randoms(i) = Randoms(j)
          /\ pc[i] \notin {"idle", "awaitFn"} /\ pc[j] \notin {"idle", "awaitFn"} )
        => /\ trace[i] = trace[j] /\ calls[i] = calls[j]
           /\ pc[i] = pc[j] /\ settled[i] = settled[j] /\ lastError[i] = lastError[j]

C13_Witness ==
    /\ fnKind[1] = "sync" /\ fnKind[2] = "async" /\ maxAttempts = 2
    /\ outcomes[1] = << [threw |-> TRUE, value |-> ErrorObject("TypeError", "boom")],
                        [threw |-> FALSE, value |-> Primitive("r1")] >>
    /\ outcomes[2] = outcomes[1]
    /\ pc[1] = "resolved" /\ pc[2] = "resolved" /\ Len(Waits(1)) = 1

\* C14: every call of fn that an invocation makes, the first and every retry,
\* receives exactly the argument list the caller gave the wrapped function, in
\* the same order, nothing added and nothing dropped.
C14_ArgumentsPassedUnchanged ==
    \A i \in Invocations :
        /\ Len(passed[i]) = calls[i]
        /\ \A c \in 1..Len(passed[i]) : passed[i][c] = args[i]

\* Two arguments, in an order that shows, passed on the first call and on a retry.
C14_Witness ==
    /\ args[1] = <<"b", "a">>
    /\ calls[1] = 2
    /\ passed[1] = << <<"b", "a">>, <<"b", "a">> >>
    /\ Len(Waits(1)) = 1

\* The caller gave the factory no options, or an object with no field set.
NoOptions == \A f \in DOMAIN options : ~options[f].defined

\* Invocation i was rejected because its last allowed attempt failed.
Exhausted(i) == pc[i] = "rejected" /\ exit[i] = "lastAttempt"

\* C15: a field the caller leaves out takes its default: base interval 1000 ms,
\* backoff factor 2, maxAttempts 3 (the initial attempt counted), no jitter, no
\* cap, every error kind retried. With no field set, no failure is classified
\* as non-retryable, and an operation that fails every time is invoked exactly
\* 3 times, with a wait of 1000 ms and then one of 2000 ms.
C15_DefaultsApplied ==
    /\ ~options.intervals.defined => intervals = 1000
    /\ ~options.backoff.defined => backoff = 2
    /\ ~options.maxAttempts.defined => maxAttempts = 3
    /\ ~options.jitter.defined => jitter = FALSE
    /\ ~options.maxInterval.defined => ~maxInterval.defined
    /\ ~options.errors.defined => ~errors.defined
    /\ \A i \in Invocations :
          NoOptions =>
              /\ exit[i] # "notRetryable"
              /\ \A k \in 1..Len(Waits(i)) : Waits(i)[k].random = 0
              /\ pc[i] = "rejected" =>
                    /\ calls[i] = 3
                    /\ \A k \in 1..3 : Failed(i, k)
                    /\ [k \in 1..Len(Waits(i)) |-> Waits(i)[k].n] = <<1000 * Unit, 2000 * Unit>>

\* No options, three failures of three kinds, all retried, the default waits.
C15_Witness ==
    /\ NoOptions
    /\ pc[1] = "rejected"
    /\ calls[1] = 3
    /\ { ErrorKind(outcomes[1][k].value) : k \in 1..3 } = {"TypeError", "NetworkError", "Error"}
    /\ Waits(1)[1].n = 1000 * Unit /\ Waits(1)[2].n = 2000 * Unit

\* The calls of the operation that invocation i made after the first one.
Retries(i) == IF calls[i] = 0 THEN 0 ELSE calls[i] - 1

DelayIndexes == 0..(MaxAttemptsBound + 2)

\* C17: with a base interval of 0 every wait of an invocation is 0, after every
\* attempt index, whatever the backoff factor, the jitter flag, the random draw
\* and the cap are; calculateDelay returns 0 for a base interval of 0 under every
\* configuration, attempt index and draw.
C17_ZeroIntervalZeroWait ==
    /\ \A n \in DelayIndexes : \A r \in RandomSamples :
           calculateDelay(0, backoff, n, maxInterval, jitter, r) = 0
    /\ \A i \in Invocations :
          (options.intervals = Some(0)) =>
              /\ intervals = 0
              /\ \A k \in 1..Len(Waits(i)) : Waits(i)[k].n = 0

\* Base interval 0 with backoff 3, jitter and a cap: two waits, both 0.
C17_Witness ==
    /\ options.intervals = Some(0) /\ backoff = 3 /\ jitter /\ maxInterval.defined
    /\ Len(Waits(1)) = 2
    /\ Waits(1)[1] = WaitEvent(0, 95) /\ Waits(1)[2] = WaitEvent(0, 0)
    /\ pc[1] = "resolved"

\* The number of attempts of invocation i that have failed so far.
FailedCount(i) == Cardinality({ k \in 1..Len(outcomes[i]) : outcomes[i][k].threw })

\* The last attempt of invocation i failed with a retryable error and the wait
\* that follows it is under way.
WaitingAfterFailure(i) ==
    /\ pc[i] = "awaitDelay"
    /\ Len(outcomes[i]) >= 1
    /\ outcomes[i][Len(outcomes[i])].threw
    /\ ~Excluded(outcomes[i][Len(outcomes[i])].value)
    /\ Len(trace[i]) >= 1
    /\ trace[i][Len(trace[i])].kind = "wait"

\* The attempt index moves only by +1, and only out of such a wait.
AttemptMovesByOneAfterWait ==
    \A i \in Invocations :
        \/ attempt'[i] = attempt[i]
        \/ attempt'[i] = attempt[i] + 1 /\ WaitingAfterFailure(i)

\* No attempt is made with the index at maxAttempts or beyond.
AttemptsBelowMaxAttempts ==
    \A i \in Invocations :
        /\ pc[i] = "awaitFn" => attempt[i] < maxAttempts
        /\ \A p \in 1..Len(trace[i]) :
              trace[i][p].kind = "attempt" => trace[i][p].n < maxAttempts

\* C18 as stated: in every reachable state the attempt index equals the number
\* of failed attempts so far; it starts at 0, moves only by +1 after a failed
\* retryable attempt and its wait, and no attempt is made at maxAttempts.
C18_IndexEqualsFailuresAlways ==
    /\ [](\A i \in Invocations :
            /\ pc[i] = "idle" => attempt[i] = 0
            /\ attempt[i] = FailedCount(i))
    /\ []AttemptsBelowMaxAttempts
    /\ [][AttemptMovesByOneAfterWait]_vars

\* Where the index stands against the failures, by position of the invocation.
AttemptIndexTracksFailures ==
    \A i \in Invocations :
        /\ pc[i] = "idle" => attempt[i] = 0 /\ FailedCount(i) = 0
        /\ pc[i] \in {"awaitFn", "resolved"} => attempt[i] = FailedCount(i)
        /\ pc[i] = "awaitDelay" => attempt[i] = FailedCount(i) - 1
        /\ (pc[i] = "rejected" /\ FailedCount(i) >= 1) => attempt[i] = FailedCount(i) - 1
        /\ (pc[i] = "rejected" /\ FailedCount(i) = 0) => attempt[i] = 0

\* C18, amended: the attempt index starts at 0, moves only by +1 and only when
\* the wait after a failed retryable attempt is over, and no attempt is made at
\* maxAttempts or beyond; it equals the number of failed attempts whenever an
\* attempt is under way or has returned, and is one less than that number
\* during the wait after a failure and once the invocation is rejected.
C18_AttemptIndexDiscipline ==
    /\ []AttemptIndexTracksFailures
    /\ []AttemptsBelowMaxAttempts
    /\ [][AttemptMovesByOneAfterWait]_vars

\* The third attempt under way after two failures and two waits, index 2.
C18_Witness ==
    /\ pc[1] = "awaitFn" /\ attempt[1] = 2 /\ FailedCount(1) = 2 /\ Len(Waits(1)) = 2

\* The creation-time errors list names some kinds, and not this value's.
ExcludedAtCreation(v) ==
    /\ created.errors.defined
    /\ Len(created.errors.value) > 0
    /\ \A m \in 1..Len(created.errors.value) : created.errors.value[m] # ErrorKind(v)

\* C19: the policy of a wrapper is the one read at its creation, whatever the
\* caller does afterwards to the options object or to the errors list: a failed
\* attempt ends the invocation as non-retryable exactly when the list given at
\* creation excludes its error, the operation is invoked at most the maxAttempts
\* of creation times, and every wait is the delay of the creation-time
\* intervals, backoff, cap and jitter.
C19_PolicyFixedAtCreation ==
    \A i \in Invocations :
        /\ (Len(outcomes[i]) >= 1 /\ outcomes[i][Len(outcomes[i])].threw) =>
              (exit[i] = "notRetryable" <=> ExcludedAtCreation(outcomes[i][Len(outcomes[i])].value))
        /\ calls[i] <= created.maxAttempts
        /\ \A k \in 1..Len(Waits(i)) :
              Waits(i)[k].n = calculateDelay(created.intervals, created.backoff, k - 1,
                                             created.maxInterval, created.jitter,
                                             Waits(i)[k].random)

\* The part of C19 that the scalar fields obey: assignments to the options
\* object change neither the budget nor the delays of the wrapper.
C19_ScalarsFixedAtCreation ==
    /\ intervals = created.intervals /\ backoff = created.backoff
    /\ maxAttempts = created.maxAttempts /\ maxInterval = created.maxInterval
    /\ jitter = created.jitter
    /\ \A i \in Invocations : calls[i] <= created.maxAttempts

\* C20: the throw placed after the attempt loop is never reached: an invocation
\* that has ended ended inside the loop, by the return of line 86 or by a throw
\* of the catch block, and a rejected invocation was rejected with an error
\* that an attempt assigned to lastError, never with the unassigned local.
C20_PostLoopThrowUnreachable ==
    \A i \in Invocations :
        /\ exit[i] # "afterLoop"
        /\ Terminal(i) => exit[i] \in {"return", "notRetryable", "lastAttempt"}
        /\ pc[i] = "rejected" => settled[i] # Unassigned /\ settled[i] = lastError[i]

====
